---- MODULE Spec2Model ----
(***************************************************************************)
(* Multi-agent routing pipeline of sciplangpt_groupchat_prototype:         *)
(* AgentManager.process_message driving BaseAgent.process_query over the   *)
(* registered agent instances.                                             *)
(*                                                                         *)
(* Python objects that are shared by reference (the context dict, the      *)
(* message_trail list, the processed_agents list) live in heaps indexed by *)
(* a reference number; 0 is "no object" (key absent).  A coroutine runs    *)
(* without interruption between two awaits of an external service          *)
(* (completion / knowledge query), so every action is the code from one    *)
(* such await to the next.  Timestamps are not modelled.                   *)
(*                                                                         *)
(* The components around the pipeline are specified on their own, each     *)
(* with its own variables, initial predicate and next-state relation: the  *)
(* registry (SpecRegistry), evaluate_capability (SpecEvaluation),          *)
(* ChatManager (SpecChat), ingestion of a knowledge directory              *)
(* (SpecIngestion) and the knowledge query of a DynamicAgent               *)
(* (SpecKnowledge).                                                        *)
(***************************************************************************)
EXTENDS Integers, Sequences, FiniteSets, TLC

\* ------------------------------------------------------------------ bounds
MaxAgents == 3

NamePool == <<"A", "B", "C", "D", "E">>
AgentNames == {NamePool[k] : k \in 1..MaxAgents}
SharedAgentNames == {NamePool[1], NamePool[2]}
Invocations == {1, 2}
Messages == <<<<"q1">>, <<"q2">>>>
Scores == {0, 10}

NoAgent == "none"
NoText == <<>>

\* A text is a sequence of tokens.  The pipeline never inspects what an
\* agent's _process_message returns, so that text is named by the agent
\* that produced it followed by the text it answered: texts of different
\* steps differ.
ReplyOf(agent, input) == <<agent>> \o input

VARIABLES
    agents,        \* AgentManager.agents, names in registration order
    available,     \* agent name -> its available_agents, in peer-map order
    agentContext,  \* agent name -> reference of its self.context
    ctxs,          \* heap of context dicts
    trails,        \* heap of message_trail lists
    plists,        \* heap of processed_agents lists
    call,          \* invocation -> the process_message call
    stack,         \* invocation -> frames of nested process_query calls
    reply,         \* invocation -> what process_message returned
    decisions,     \* invocation -> its latest make_decision call
    callers,       \* the invocations that callers of process_message issue
    capability,    \* one evaluate_capability call: its inputs and its result
    chat,          \* one ChatManager.initiate_conversation call
    ingest,        \* the process_files_async run on one knowledge directory
    disk,          \* that directory's embedding/ subdirectory and its two files
    knowledge,     \* a DynamicAgent over that directory and its knowledge query
    chunks,        \* one process_chunks call and its embed_text calls
    rooms,         \* chat_routes' chat_rooms and chat_history dicts
    pool           \* the AgentPoolManager's directory and one create_agent call

\* The routing pipeline and the registry it runs over.
routingVars == <<agents, available, agentContext, ctxs, trails, plists,
                 call, stack, reply, decisions, callers>>

\* The components specified on their own.
otherVars == <<capability, chat, ingest, disk, knowledge, chunks, rooms, pool>>

\* What the actions of one component leave alone.
exceptCapability == <<routingVars, chat, ingest, disk, knowledge, chunks, rooms, pool>>
exceptChat == <<routingVars, capability, ingest, disk, knowledge, chunks, rooms, pool>>
exceptIngestion == <<routingVars, capability, chat, knowledge, chunks, rooms, pool>>
exceptKnowledge == <<routingVars, capability, chat, ingest, chunks, rooms, pool>>
exceptChunks == <<routingVars, capability, chat, ingest, disk, knowledge, rooms, pool>>
exceptRooms == <<routingVars, capability, chat, ingest, disk, knowledge, chunks, pool>>
exceptPool == <<routingVars, capability, chat, ingest, disk, knowledge, chunks, rooms>>

vars == <<routingVars, otherVars>>

\* ------------------------------------------------------------ sequences
Range(s) == {s[k] : k \in DOMAIN s}
Last(s) == s[Len(s)]
Front(s) == SubSeq(s, 1, Len(s) - 1)
InSeq(x, s) == \E k \in DOMAIN s : s[k] = x
NoDuplicates(s) == \A j, k \in DOMAIN s : s[j] = s[k] => j = k

\* ------------------------------------------------- service call outcomes
\* The replies a candidate may give to the hand-off question.
DecisionReplies ==
    { <<"y", "e", "s">>, <<" ", "Y", "e", "s", "\n">>, <<"n", "o">>,
      <<"y", "e", "s", ".">>, <<"N", "O", " ">> }

\* What the services do during one make_decision: the completion call
\* returns a text or raises (ok = FALSE); before it, a DynamicAgent queries
\* its knowledge base, and query_index_async returns or raises (lookup_ok =
\* FALSE).  A BaseAgent makes no lookup (lookup_ok = TRUE).
DecisionCompletions ==
    {[lookup_ok |-> l, ok |-> TRUE, text |-> t] : l \in BOOLEAN, t \in DecisionReplies}
        \cup {[lookup_ok |-> l, ok |-> FALSE, text |-> <<>>] : l \in BOOLEAN}

Lower(c) ==
    CASE c = "Y" -> "y" [] c = "E" -> "e" [] c = "S" -> "s"
      [] c = "N" -> "n" [] c = "O" -> "o" [] OTHER -> c

ToLower(s) == [k \in DOMAIN s |-> Lower(s[k])]

IsSpace(c) == c \in {" ", "\n"}

RECURSIVE LStrip(_)
LStrip(s) == IF s # <<>> /\ IsSpace(Head(s)) THEN LStrip(Tail(s)) ELSE s

RECURSIVE RStrip(_)
RStrip(s) == IF s # <<>> /\ IsSpace(Last(s)) THEN RStrip(Front(s)) ELSE s

Strip(s) == RStrip(LStrip(s))

Yes == <<"y", "e", "s">>
No == <<"n", "o">>
Unset == <<>>

\* DynamicAgent._query_knowledge_base: the scores found; every exception of
\* the query is caught there and answered with empty lists.
QueryKnowledgeBase(lookup_ok, scores) == IF lookup_ok THEN scores ELSE <<>>

\* BaseAgent.make_decision / DynamicAgent.make_decision.  The lookup only
\* words the prompt (has_more_knowledge); the answer is the completion's
\* reply, stripped and lower-cased, or "no" when the completion raises.
MakeDecision(outcome) ==
    LET scores == QueryKnowledgeBase(outcome.lookup_ok, <<10, 0>>)
        has_more_knowledge == Len(scores) > 1 /\ scores[2] >= 0
    IN  IF outcome.ok THEN ToLower(Strip(outcome.text)) ELSE No

\* BaseAgent.evaluate_capability: a score (in tenths) and a reason; a failed
\* evaluation is reported as score 0.0.
EvalResults ==
    {[score |-> s, reason |-> "reason"] : s \in Scores}
        \cup {[score |-> 0, reason |-> "eval_error"]}

\* --------------------------------------------------------------- records
NoResponse ==
    [agent |-> NoAgent, content |-> NoText, status |-> "none", error |-> FALSE,
     message_trail |-> 0, processed_agents |-> 0,
     has_next_result |-> FALSE, next_agent_error |-> FALSE]

NoReply ==
    [status |-> "none", result |-> <<>>, error |-> FALSE,
     unused_agents |-> {}, processing_sequence |-> {}]

IdleCall == [pc |-> "idle", message |-> NoText, initial_agent |-> NoAgent, ctx |-> 0]

NoDecision == [raised |-> FALSE, lookup_failed |-> FALSE, answer |-> Unset]

\* No evaluate_capability call has been made.
NoEvaluation ==
    [pc |-> "idle", agent_type |-> "none", lookup_ok |-> TRUE,
     completion_ok |-> TRUE, response |-> <<>>,
     score |-> [nan |-> FALSE, v |-> 0], reason |-> <<>>]

\* No conversation has been initiated.
NoConversation ==
    [pc |-> "idle", agents |-> <<>>, max_rounds |-> 0, round_num |-> 0,
     current_message |-> NoText, evaluations |-> <<>>, next_agent |-> NoAgent,
     content |-> NoText, history |-> <<>>, final_response |-> NoText]

\* A file of the embedding directory: absent, written whole by ingestion
\* run `run` (an index file of `rows` rows, a metadata file of `texts` texts
\* and `sources` sources), or left unreadable by a write that failed.
AbsentFile == [state |-> "absent", run |-> 0, rows |-> 0, texts |-> 0, sources |-> 0]

\* A knowledge directory that was never ingested.
NoEmbeddingDir == [dir |-> FALSE, index |-> AbsentFile, metadata |-> AbsentFile]

\* No ingestion has run.
NoIngestion ==
    [pc |-> "idle", run |-> 0, files |-> <<>>, file_i |-> 0, chunk_i |-> 0,
     embeddings |-> 0, texts |-> 0, sources |-> 0,
     all_embeddings |-> 0, all_texts |-> 0, all_sources |-> 0,
     result |-> "none"]

\* No agent instance has been made for the directory.
NoKnowledgeQuery ==
    [pc |-> "idle", similarity_threshold |-> 0, ingestion_triggered |-> FALSE,
     k |-> 0, calls |-> <<>>, embedding |-> "none", retrieved |-> <<>>,
     raised |-> FALSE, results |-> <<>>]

\* process_chunks has not been called.
NoChunks ==
    [pc |-> "idle", chunks |-> <<>>, filepath |-> "", i |-> 0, calls |-> <<>>,
     embeddings |-> <<>>, texts |-> <<>>, sources |-> <<>>, metadata |-> <<>>]

\* chat_routes.py:94-95: both dicts start empty; no request was served.
NoRooms ==
    [chat_rooms |-> <<>>, chat_history |-> <<>>, now |-> 0,
     room_id |-> "", response |-> "none"]

\* _initialize_pool on a fresh base_dir: no agent directory, agents.json
\* holds []; create_agent has not been called.
EmptyPool ==
    [dirs |-> {}, listed |-> <<>>, pc |-> "idle", name |-> NoAgent,
     result |-> "none"]

\* The components specified on their own, at rest.
OthersIdle ==
    /\ capability = NoEvaluation
    /\ chat = NoConversation
    /\ ingest = NoIngestion
    /\ disk = NoEmbeddingDir
    /\ knowledge = NoKnowledgeQuery
    /\ chunks = NoChunks
    /\ rooms = NoRooms
    /\ pool = EmptyPool

\* ------------------------------------------------------------------ Init
\* AgentManager.register_agent called once per agent.  Names are
\* interchangeable, so the agents are registered in NamePool order; the
\* starting agent of an invocation is any name, registered or not.
Registries == {SubSeq(NamePool, 1, n) : n \in 1..MaxAgents}

RegisterAvailableAgents(registry, name) ==
    SelectSeq(registry, LAMBDA n : n # name)

InitCommon ==
    /\ agents \in Registries
    /\ available = [n \in AgentNames |->
                      IF InSeq(n, agents) THEN RegisterAvailableAgents(agents, n) ELSE <<>>]
    /\ agentContext = [n \in AgentNames |-> 0]
    /\ ctxs = <<>>
    /\ trails = <<>>
    /\ plists = <<>>
    /\ call = [i \in Invocations |-> IdleCall]
    /\ stack = [i \in Invocations |-> <<>>]
    /\ reply = [i \in Invocations |-> NoReply]
    /\ decisions = [i \in Invocations |-> NoDecision]
    /\ OthersIdle

\* One caller: a single routing invocation.
Init == InitCommon /\ callers = {1}

\* Several callers whose invocations interleave at the awaits, over a
\* registry drawn from SharedAgentNames.
InitConcurrent ==
    /\ InitCommon
    /\ Range(agents) \subseteq SharedAgentNames
    /\ callers = Invocations

\* ------------------------------------------------------- process_query
\* Index of the next peer, from position `from` of the peer map on, that
\* passes `if agent_name not in processed_agents`; 0 when there is none.
NextPeerNoFilter(peers, from, processed) ==
    IF from > Len(peers) THEN 0 ELSE from

NextPeer(peers, from, processed) ==
    LET cand == {k \in from..Len(peers) : ~InSeq(peers[k], processed)}
    IN  IF cand = {} THEN 0 ELSE CHOOSE k \in cand : \A j \in cand : k <= j

\* max(evaluations, key=lambda x: x[1]["score"]): the first maximal element.
BestEvaluation(evals) ==
    evals[CHOOSE k \in DOMAIN evals :
            \A j \in DOMAIN evals :
                /\ evals[j].score <= evals[k].score
                /\ j < k => evals[j].score < evals[k].score]

\* current_step, as appended to message_trail.  `by` records the invocation
\* whose coroutine built the step (history only, not a field of the dict).
NewStep(agent, input, output, i) ==
    [agent_name |-> agent, input |-> input, output |-> output,
     next_agent |-> NoAgent, next_agent_reason |-> "none", by |-> i]

\* message_trail.append(current_step)
AppendStepReplacing(trail, step) ==
    IF trail = <<>> THEN <<step>> ELSE [trail EXCEPT ![Len(trail)] = step]

AppendStep(trail, step) == Append(trail, step)

\* processed_agents.append(self.name)
AppendProcessedSkipping(processed, name) == processed

AppendProcessed(processed, name) == Append(processed, name)

\* The text handed to the next agent: process_query(current_result, ...).
HandoffMessageOriginal(f) == f.message

HandoffMessage(f) == f.current_result

\* if should_continue == "yes"
ShouldHandOff(should_continue) == should_continue = Yes

\* Entry of process_query up to the await inside _process_message:
\* self.context = context; the two lists are fetched from the context, a
\* fresh list standing in for a missing key.
EnterProcessQuery(agent, message, ctx, C, T, P) ==
    LET hasTrail == C[ctx].message_trail # 0
        hasPlist == C[ctx].processed_agents # 0
        t == IF hasTrail THEN C[ctx].message_trail ELSE Len(T) + 1
        p == IF hasPlist THEN C[ctx].processed_agents ELSE Len(P) + 1
    IN  [frame |-> [agent |-> agent, message |-> message, context |-> ctx,
                    trail |-> t, plist |-> p,
                    pc |-> "processing", current_result |-> NoText, step |-> 0,
                    evals |-> <<>>, peer |-> 0, response |-> NoResponse,
                    should_continue |-> Unset],
         trails |-> IF hasTrail THEN T ELSE Append(T, <<>>),
         plists |-> IF hasPlist THEN P ELSE Append(P, <<>>)]

\* The response dict built at lines 167-174.
CompletedResponse(f) ==
    [agent |-> f.agent, content |-> f.current_result, status |-> "completed",
     error |-> FALSE, message_trail |-> f.trail, processed_agents |-> f.plist,
     has_next_result |-> FALSE, next_agent_error |-> FALSE]

\* The dict returned by the outer except clause, lines 199-205.
ErrorResponse(f) ==
    [agent |-> f.agent, content |-> NoText, status |-> "error",
     error |-> TRUE, message_trail |-> f.trail, processed_agents |-> 0,
     has_next_result |-> FALSE, next_agent_error |-> FALSE]

\* response.update(...) of every caller once the nested process_query has
\* returned (no await in between).  chain[1] is the response just returned;
\* the result lists the nested responses outermost first: element k + 1 is
\* the next_agent_result of element k.
RECURSIVE UnwindPropagating(_, _)
UnwindPropagating(frames, chain) ==
    IF frames = <<>> THEN chain
    ELSE LET parent == Last(frames)
             child == chain[1]
             updated == IF child.status = "error"
                        THEN [child EXCEPT !.agent = parent.agent]
                        ELSE [parent.response EXCEPT
                                 !.has_next_result = TRUE,
                                 !.message_trail = child.message_trail,
                                 !.processed_agents =
                                     IF child.processed_agents # 0
                                     THEN child.processed_agents ELSE parent.plist]
         IN  UnwindPropagating(Front(frames), <<updated>> \o chain)

RECURSIVE Unwind(_, _)
Unwind(frames, chain) ==
    IF frames = <<>> THEN chain
    ELSE LET parent == Last(frames)
             child == chain[1]
             updated == [parent.response EXCEPT
                            !.has_next_result = TRUE,
                            !.message_trail = child.message_trail,
                            !.processed_agents =
                                IF child.processed_agents # 0
                                THEN child.processed_agents ELSE parent.plist]
         IN  Unwind(Front(frames), <<updated>> \o chain)

\* ----------------------------------------------------- process_message
\* Lines 73-86: what process_message returns after process_query returned.
ProcessMessageReturn(chain, ctx) ==
    LET processed_agents == ctxs[ctx].processing_agents
        unprocessed_agents == Range(agents) \ processed_agents
    IN  [status |-> "success", result |-> chain, error |-> FALSE,
         unused_agents |-> unprocessed_agents,
         processing_sequence |-> processed_agents]

\* Lines 88-94.
ProcessMessageError ==
    [status |-> "error", result |-> <<>>, error |-> TRUE,
     unused_agents |-> {}, processing_sequence |-> {}]

\* The top frame returns response r to its callers and process_message ends.
Return(i, below, r) ==
    /\ stack' = [stack EXCEPT ![i] = <<>>]
    /\ reply' = [reply EXCEPT ![i] = ProcessMessageReturn(Unwind(below, <<r>>), call[i].ctx)]
    /\ call' = [call EXCEPT ![i].pc = "done"]

\* process_message(message, initial_agent) up to the first await.
Start(i, initial) ==
    /\ call[i].pc = "idle"
    /\ i \in callers
    /\ IF ~InSeq(initial, agents)
       THEN /\ call' = [call EXCEPT ![i] = [pc |-> "done", message |-> Messages[i],
                                             initial_agent |-> initial, ctx |-> 0]]
            /\ reply' = [reply EXCEPT ![i] = ProcessMessageError]
            /\ UNCHANGED <<agentContext, ctxs, trails, plists, stack>>
       ELSE LET c == Len(ctxs) + 1
                C == Append(ctxs, [message_trail |-> Len(trails) + 1,
                                   processed_agents |-> 0,
                                   processing_agents |-> {}])
                e == EnterProcessQuery(initial, Messages[i], c, C,
                                       Append(trails, <<>>), plists)
            IN  /\ ctxs' = C
                /\ trails' = e.trails
                /\ plists' = e.plists
                /\ agentContext' = [agentContext EXCEPT ![initial] = c]
                /\ stack' = [stack EXCEPT ![i] = <<e.frame>>]
                /\ call' = [call EXCEPT ![i] = [pc |-> "running", message |-> Messages[i],
                                                 initial_agent |-> initial, ctx |-> c]]
                /\ UNCHANGED reply
    /\ UNCHANGED <<agents, available, decisions, callers>>
    /\ UNCHANGED otherVars

\* _process_message returned: lines 139-165 up to the next await.
ProcessReturns(i) ==
    /\ call[i].pc = "running"
    /\ stack[i] # <<>>
    /\ LET f == Last(stack[i])
           below == Front(stack[i])
           out == ReplyOf(f.agent, f.message)
           T == [trails EXCEPT ![f.trail] =
                    AppendStep(@, NewStep(f.agent, f.message, out, i))]
           P == [plists EXCEPT ![f.plist] = AppendProcessed(@, f.agent)]
           c == agentContext[f.agent]
           g == [f EXCEPT !.current_result = out, !.step = Len(T[f.trail])]
           k == NextPeer(available[f.agent], 1, P[f.plist])
       IN  /\ f.pc = "processing"
           /\ trails' = T
           /\ plists' = P
           /\ ctxs' = [ctxs EXCEPT ![c].message_trail = f.trail,
                                   ![c].processed_agents = f.plist]
           /\ IF k # 0
              THEN /\ stack' = [stack EXCEPT ![i] =
                                  Append(below, [g EXCEPT !.pc = "evaluating", !.peer = k])]
                   /\ UNCHANGED <<call, reply>>
              ELSE Return(i, below, CompletedResponse(g))
    /\ UNCHANGED <<agents, available, agentContext, decisions, callers>>
    /\ UNCHANGED otherVars

\* _process_message raised: the outer except clause answers.
ProcessFails(i) ==
    /\ call[i].pc = "running"
    /\ stack[i] # <<>>
    /\ LET f == Last(stack[i])
       IN  /\ f.pc = "processing"
           /\ Return(i, Front(stack[i]), ErrorResponse(f))
    /\ UNCHANGED <<agents, available, agentContext, ctxs, trails, plists,
                   decisions, callers>>
    /\ UNCHANGED otherVars

\* evaluate_capability of the peer under evaluation returned `ev`.
EvalReturns(i, ev) ==
    /\ call[i].pc = "running"
    /\ stack[i] # <<>>
    /\ LET f == Last(stack[i])
           below == Front(stack[i])
           peers == available[f.agent]
           evals == Append(f.evals, [name |-> peers[f.peer], score |-> ev.score,
                                     reason |-> ev.reason])
           k == NextPeer(peers, f.peer + 1, plists[f.plist])
           best == BestEvaluation(evals)
           T == [trails EXCEPT ![f.trail][f.step].next_agent = best.name,
                               ![f.trail][f.step].next_agent_reason = best.reason]
           g == [f EXCEPT !.evals = evals]
       IN  /\ f.pc = "evaluating"
           /\ IF k # 0
              THEN /\ stack' = [stack EXCEPT ![i] = Append(below, [g EXCEPT !.peer = k])]
                   /\ UNCHANGED <<trails, call, reply>>
              ELSE /\ trails' = T
                   /\ IF InSeq(best.name, peers)
                      THEN /\ stack' = [stack EXCEPT ![i] =
                                          Append(below, [g EXCEPT !.pc = "deciding",
                                                                  !.peer = 0,
                                                                  !.response = CompletedResponse(g)])]
                           /\ UNCHANGED <<call, reply>>
                      ELSE Return(i, below, CompletedResponse(g))
    /\ UNCHANGED <<agents, available, agentContext, ctxs, plists, decisions, callers>>
    /\ UNCHANGED otherVars

\* make_decision of the candidate returned: lines 184-195.
DecisionReturns(i, outcome) ==
    /\ call[i].pc = "running"
    /\ stack[i] # <<>>
    /\ LET f == Last(stack[i])
           below == Front(stack[i])
           should_continue == MakeDecision(outcome)
           next_agent == trails[f.trail][f.step].next_agent
           e == EnterProcessQuery(next_agent, HandoffMessage(f), agentContext[f.agent],
                                  ctxs, trails, plists)
       IN  /\ f.pc = "deciding"
           /\ decisions' = [decisions EXCEPT ![i] =
                              [raised |-> ~outcome.ok,
                               lookup_failed |-> ~outcome.lookup_ok,
                               answer |-> should_continue]]
           /\ IF ShouldHandOff(should_continue)
              THEN /\ stack' = [stack EXCEPT ![i] =
                                  Append(below, [f EXCEPT !.pc = "awaiting",
                                                          !.should_continue = should_continue])
                                      \o <<e.frame>>]
                   /\ trails' = e.trails
                   /\ plists' = e.plists
                   /\ agentContext' = [agentContext EXCEPT ![next_agent] = agentContext[f.agent]]
                   /\ UNCHANGED <<call, reply>>
              ELSE /\ Return(i, below, f.response)
                   /\ UNCHANGED <<trails, plists, agentContext>>
    /\ UNCHANGED <<agents, available, ctxs, callers>>
    /\ UNCHANGED otherVars

Next ==
    \/ \E i \in Invocations, a \in AgentNames : Start(i, a)
    \/ \E i \in Invocations : ProcessReturns(i)
    \/ \E i \in Invocations : ProcessFails(i)
    \/ \E i \in Invocations, ev \in EvalResults : EvalReturns(i, ev)
    \/ \E i \in Invocations, d \in DecisionCompletions : DecisionReturns(i, d)

Spec == Init /\ [][Next]_vars

SpecConcurrent == InitConcurrent /\ [][Next]_vars

\* Every service call eventually returns or fails.
FairSpec == Init /\ [][Next]_vars /\ WF_vars(Next)

\* ------------------------------------------------------------- helpers
AgentsOf(trail) == [k \in DOMAIN trail |-> trail[k].agent_name]
Done(i) == call[i].pc = "done"
Succeeded(i) == Done(i) /\ reply[i].status = "success"
Chain(i) == reply[i].result
ReturnedTrail(i) == trails[Chain(i)[1].message_trail]

\* ------------------------------------------------------------------ C1
\* C1: in one routing chain no agent that has produced output is evaluated
\* or selected again: no name occurs twice in a message_trail or in a
\* processed_agents list, and the peers under evaluation, the evaluated
\* peers and the chosen candidate of the running round are all unprocessed.
C1_NoRevisit ==
    /\ \A t \in DOMAIN trails : NoDuplicates(AgentsOf(trails[t]))
    /\ \A p \in DOMAIN plists : NoDuplicates(plists[p])
    /\ \A i \in Invocations :
          stack[i] # <<>> =>
             LET f == Last(stack[i])
                 processed == plists[f.plist]
             IN  /\ f.pc = "evaluating" => ~InSeq(available[f.agent][f.peer], processed)
                 /\ f.pc \in {"evaluating", "deciding"} =>
                       \A k \in DOMAIN f.evals : ~InSeq(f.evals[k].name, processed)
                 /\ f.pc = "deciding" =>
                       ~InSeq(trails[f.trail][f.step].next_agent, processed)

\* A second round has chosen its candidate among the unprocessed peers.
C1_Witness ==
    \E i \in Invocations :
        /\ Len(stack[i]) = 2
        /\ Last(stack[i]).pc = "deciding"
        /\ Len(plists[Last(stack[i]).plist]) = 2

\* ------------------------------------------------------------------ C2
\* C2: a decision whose completion call or knowledge lookup fails yields
\* "no"; a nested process_query is entered only on a make_decision that
\* returned exactly "yes"; on any other answer the invocation returns with
\* the trail and processed_agents as they were.
C2_HandOffOnlyOnYes ==
    [][\A i \in Invocations :
          /\ (Len(stack[i]) >= 1 /\ Len(stack'[i]) > Len(stack[i])) =>
                /\ Last(stack[i]).pc = "deciding"
                /\ decisions'[i].answer = Yes
          /\ (stack[i] # <<>> /\ Last(stack[i]).pc = "deciding" /\ stack'[i] # stack[i]) =>
                LET d == decisions'[i]
                IN  /\ (d.raised \/ d.lookup_failed) => d.answer = No
                    /\ d.answer # Yes =>
                          /\ stack'[i] = <<>>
                          /\ call'[i].pc = "done"
                          /\ trails' = trails
                          /\ plists' = plists]_vars

\* ------------------------------------------------------------------ C3
\* C3: the content returned by the starting agent's process_query is the
\* output of the last message_trail entry.
C3_FinalOutputIsLastOutput ==
    \A i \in Invocations :
        (Succeeded(i) /\ Chain(i)[1].status = "completed") =>
            Chain(i)[1].content = Last(ReturnedTrail(i)).output

C5_UnusedAgentsAreTheUnvisited ==
    \A i \in Invocations :
        Succeeded(i) =>
            /\ reply[i].unused_agents = Range(agents) \ Range(AgentsOf(ReturnedTrail(i)))
            /\ reply[i].processing_sequence = Range(AgentsOf(ReturnedTrail(i)))

\* ------------------------------------------------------------------ C6
\* C6: when the starting agent's processing fails, process_message does
\* not answer status success.
C6_StartFailureIsAnError ==
    \A i \in Invocations :
        (Done(i) /\ Chain(i) # <<>> /\ Chain(i)[1].status = "error") =>
            reply[i].status = "error"

\* ------------------------------------------------------------------ C7
\* C7: with interleaved invocations, every step in a message_trail used or
\* returned by an invocation was produced by that invocation, and every
\* nested process_query runs with the context of its own invocation.
C7_InvocationsAreIsolated ==
    \A i \in Invocations :
        /\ \A k \in DOMAIN stack[i] :
              LET f == stack[i][k]
              IN  /\ f.context = call[i].ctx
                  /\ \A j \in DOMAIN trails[f.trail] : trails[f.trail][j].by = i
        /\ Succeeded(i) =>
              \A k \in DOMAIN Chain(i) :
                  \A j \in DOMAIN trails[Chain(i)[k].message_trail] :
                      trails[Chain(i)[k].message_trail][j].by = i

\* ------------------------------------------------------------------ C8
\* C8: a routing chain over N registered agents makes at most N processing
\* steps, returns as soon as a step leaves no unvisited peer or the candidate
\* declines, and a running invocation eventually returns.
C8_Terminates ==
    /\ [](\A i \in Invocations :
            /\ Len(stack[i]) <= Len(agents)
            /\ \A k \in DOMAIN stack[i] : Len(trails[stack[i][k].trail]) <= Len(agents))
    /\ [][\A i \in Invocations :
            (/\ stack[i] # <<>>
             /\ Last(stack[i]).pc = "processing"
             /\ stack'[i] # stack[i]
             /\ Range(available[Last(stack[i]).agent])
                   \subseteq Range(plists'[Last(stack[i]).plist]))
                => Done(i)']_vars
    /\ [][\A i \in Invocations :
            (/\ stack[i] # <<>>
             /\ Last(stack[i]).pc = "deciding"
             /\ stack'[i] # stack[i]
             /\ decisions'[i].answer # Yes)
                => Done(i)']_vars
    /\ (\E i \in Invocations : call[i].pc = "running")
          ~> (\A i \in Invocations : call[i].pc # "running")

\* Every registered agent of a full registry has processed.
C8_Witness ==
    \E i \in Invocations :
        /\ Succeeded(i)
        /\ Len(agents) = MaxAgents
        /\ Len(ReturnedTrail(i)) = MaxAgents

\* ------------------------------------------------------------------ C9
\* C9: the first trail entry has the original message as input and the
\* starting agent as agent; every later entry has the previous entry's
\* output as input and the previous entry's chosen candidate as agent.
C9_TrailOrdered ==
    \A i \in Invocations :
        call[i].ctx # 0 =>
            LET T == trails[ctxs[call[i].ctx].message_trail]
            IN  /\ T # <<>> =>
                      /\ T[1].input = call[i].message
                      /\ T[1].agent_name = call[i].initial_agent
                /\ \A k \in 2..Len(T) :
                      /\ T[k].input = T[k - 1].output
                      /\ T[k].agent_name = T[k - 1].next_agent

\* A hand-off has extended the trail and the second agent chose a third.
C9_Witness ==
    \E i \in Invocations :
        /\ call[i].ctx # 0
        /\ LET T == trails[ctxs[call[i].ctx].message_trail]
           IN  /\ Len(T) = 2
               /\ T[2].next_agent # NoAgent

\* ----------------------------------------------------------------- C10
\* C10 as stated: no entry of a message_trail ever changes once appended.
C10_EntriesNeverChange ==
    [][\A t \in DOMAIN trails :
          \A k \in DOMAIN trails[t] : trails'[t][k] = trails[t][k]]_vars

\* C10 amended: entries are never removed or reordered and the agent_name,
\* input and output of an appended entry never change; the only change is
\* that next_agent and next_agent_reason are added, once, to the entry
\* appended last.
C10_AppendOnlyUpToNextAgent ==
    [][\A t \in DOMAIN trails :
          /\ Len(trails'[t]) >= Len(trails[t])
          /\ \A k \in DOMAIN trails[t] :
                LET old == trails[t][k]
                    new == trails'[t][k]
                IN  /\ new.agent_name = old.agent_name
                    /\ new.input = old.input
                    /\ new.output = old.output
                    /\ new.by = old.by
                    /\ new # old =>
                          /\ k = Len(trails[t])
                          /\ old.next_agent = NoAgent
                          /\ old.next_agent_reason = "none"
                          /\ new.next_agent # NoAgent]_vars

\* An entry that received its next_agent is followed by a later entry.
C10_Witness ==
    \E t \in DOMAIN trails :
        /\ Len(trails[t]) >= 2
        /\ trails[t][1].next_agent # NoAgent

\* =========================================================================
\* AgentManager.register_agent / remove_agent
\* =========================================================================
\* An agent object is named by its name.  A removed agent keeps the peer
\* map it had (nothing rebuilds it) until it is registered again.

\* for existing_agent in self.agents.values():
\*     existing_agent.register_available_agents(self.agents)
RebuildPeersKeepingOld(registry, old) == old

RebuildPeers(registry, old) ==
    [n \in DOMAIN old |->
        IF InSeq(n, registry) THEN RegisterAvailableAgents(registry, n) ELSE old[n]]

\* self.agents[agent.name] = agent: a new key goes last, a key already in
\* the dict keeps its place.
RegisterAgent(name) ==
    /\ callers = {}
    /\ LET registry == IF InSeq(name, agents) THEN agents ELSE Append(agents, name)
       IN  /\ agents' = registry
           /\ available' = RebuildPeers(registry, available)
    /\ UNCHANGED <<agentContext, ctxs, trails, plists, call, stack, reply,
                   decisions, callers>>
    /\ UNCHANGED otherVars

\* if agent_name in self.agents: del self.agents[agent_name], then the
\* remaining agents are rebuilt; an unknown name is only logged.
RemoveAgent(name) ==
    /\ callers = {}
    /\ IF InSeq(name, agents)
       THEN LET registry == SelectSeq(agents, LAMBDA n : n # name)
            IN  /\ agents' = registry
                /\ available' = RebuildPeers(registry, available)
       ELSE UNCHANGED <<agents, available>>
    /\ UNCHANGED <<agentContext, ctxs, trails, plists, call, stack, reply,
                   decisions, callers>>
    /\ UNCHANGED otherVars

\* AgentManager.__init__ and BaseAgent.__init__: no agent registered, every
\* peer map empty, no routing call ever issued.
InitRegistry ==
    /\ agents = <<>>
    /\ available = [n \in AgentNames |-> <<>>]
    /\ agentContext = [n \in AgentNames |-> 0]
    /\ ctxs = <<>>
    /\ trails = <<>>
    /\ plists = <<>>
    /\ call = [i \in Invocations |-> IdleCall]
    /\ stack = [i \in Invocations |-> <<>>]
    /\ reply = [i \in Invocations |-> NoReply]
    /\ decisions = [i \in Invocations |-> NoDecision]
    /\ callers = {}
    /\ OthersIdle

NextRegistry ==
    \/ \E n \in AgentNames : RegisterAgent(n)
    \/ \E n \in AgentNames : RemoveAgent(n)

SpecRegistry == InitRegistry /\ [][NextRegistry]_vars

\* ----------------------------------------------------------------- C11
\* C11: after any sequence of register_agent and remove_agent calls, the
\* peer map of every registered agent holds exactly the names of the other
\* registered agents, each once: not itself, no removed agent, none missing.
C11_PeersAreTheOtherRegistered ==
    \A k \in DOMAIN agents :
        /\ Range(available[agents[k]]) = Range(agents) \ {agents[k]}
        /\ NoDuplicates(available[agents[k]])

\* An agent was removed while two others stay registered: the removed one
\* still holds its old peer map, the two that stay have been rebuilt.
C11_Witness ==
    /\ Len(agents) = 2
    /\ \E n \in AgentNames :
          /\ ~InSeq(n, agents)
          /\ Range(available[n]) = Range(agents)

\* =========================================================================
\* evaluate_capability (BaseAgent and the DynamicAgent override)
\* =========================================================================
AgentTypes == {"BaseAgent", "DynamicAgent"}

\* A float: a number of tenths, or not-a-number.
Float(v) == [nan |-> FALSE, v |-> v]
NaN == [nan |-> TRUE, v |-> 0]

\* float(line): the lines float() accepts, with their values; on every other
\* line it raises ValueError.
Numerals == {"-0.5", "0", "0.7", "1", "1.5", "7", "nan"}

ParseFloat(line) ==
    CASE line = "-0.5" -> Float(-5)
      [] line = "0" -> Float(0)
      [] line = "0.7" -> Float(7)
      [] line = "1" -> Float(10)
      [] line = "1.5" -> Float(15)
      [] line = "7" -> Float(70)
      [] line = "nan" -> NaN

\* The replies of the model, split at "\n": a first line and the lines
\* after it.
FirstLines == Numerals \cup {"high", "", "0.7 is my score"}
RestLines == {<<>>, <<"because">>, <<"">>, <<"because", "">>}
EvaluationReplies == {<<l>> \o r : l \in FirstLines, r \in RestLines}

\* a < b on floats: every comparison with not-a-number is false.
FloatLess(a, b) == ~a.nan /\ ~b.nan /\ a.v < b.v

\* max(a, b) and min(a, b) of Python: the first argument unless the second
\* is strictly greater (smaller).
PyMax(a, b) == IF FloatLess(a, b) THEN b ELSE a
PyMin(a, b) == IF FloatLess(b, a) THEN b ELSE a

\* min(max(score, 0.0), 1.0)
Clamp(score) == PyMin(PyMax(score, Float(0)), Float(10))

\* The score given to a reply whose first line float() rejects.
FallbackScore(agent_type) ==
    IF agent_type = "DynamicAgent" THEN Float(5) ELSE Float(0)

\* The inner try / except and the returned dict.
ScoreReply(agent_type, response) ==
    IF Head(response) \in Numerals
    THEN [score |-> Clamp(ParseFloat(Head(response))), reason |-> Tail(response)]
    ELSE [score |-> Clamp(FallbackScore(agent_type)), reason |-> response]

\* The dict returned by the outer except clause.
EvaluationError == [score |-> Float(0), reason |-> <<"error">>]

\* evaluate_capability is called: a DynamicAgent first awaits its knowledge
\* base, a BaseAgent goes straight to the completion call.
EvaluateCapability(agent_type) ==
    /\ capability.pc = "idle"
    /\ capability' = [capability EXCEPT
                         !.agent_type = agent_type,
                         !.pc = IF agent_type = "DynamicAgent"
                                THEN "querying" ELSE "completing"]
    /\ UNCHANGED exceptCapability

\* _query_knowledge_base returned; a failed lookup comes back as empty
\* lists, and knowledge_score only words the prompt.
EvaluationLookupReturns(lookup_ok) ==
    /\ capability.pc = "querying"
    /\ capability' = [capability EXCEPT !.lookup_ok = lookup_ok, !.pc = "completing"]
    /\ UNCHANGED exceptCapability

\* _create_chat_completion_async returned `response`.
EvaluationCompletionReturns(response) ==
    /\ capability.pc = "completing"
    /\ LET r == ScoreReply(capability.agent_type, response)
       IN  capability' = [capability EXCEPT
                             !.pc = "returned", !.response = response,
                             !.score = r.score, !.reason = r.reason]
    /\ UNCHANGED exceptCapability

\* _create_chat_completion_async raised: the outer except clause answers.
EvaluationCompletionFails ==
    /\ capability.pc = "completing"
    /\ capability' = [capability EXCEPT
                         !.pc = "returned", !.completion_ok = FALSE,
                         !.score = EvaluationError.score,
                         !.reason = EvaluationError.reason]
    /\ UNCHANGED exceptCapability

InitEvaluation ==
    /\ InitRegistry

NextEvaluation ==
    \/ \E t \in AgentTypes : EvaluateCapability(t)
    \/ \E l \in BOOLEAN : EvaluationLookupReturns(l)
    \/ \E r \in EvaluationReplies : EvaluationCompletionReturns(r)
    \/ EvaluationCompletionFails

SpecEvaluation == InitEvaluation /\ [][NextEvaluation]_vars

\* ----------------------------------------------------------------- C12
\* C12: for both agent types evaluate_capability returns (never raises) a
\* score in [0,1]; when the first line of the reply is not a number the
\* score is 0.0 and the reason is the whole reply.
C12_NonNumericScoresZero ==
    capability.pc = "returned" =>
        /\ ~capability.score.nan
        /\ capability.score.v >= 0
        /\ capability.score.v <= 10
        /\ (capability.completion_ok /\ Head(capability.response) \notin Numerals) =>
              /\ capability.score = Float(0)
              /\ capability.reason = capability.response

\* =========================================================================
\* ChatManager.initiate_conversation
\* =========================================================================
MaxRounds == 3

\* The agents list of a conversation, possibly empty.
Rosters == {SubSeq(NamePool, 1, n) : n \in 0..MaxAgents}

\* What one of the evaluate_capability calls gathered in a round returns: a
\* score in tenths, a failed evaluation being reported as score 0.
GatheredEvaluations ==
    {[score |-> e.score, failed |-> e.reason = "eval_error", done |-> TRUE] :
        e \in EvalResults}

\* A call of the gather that has not returned yet.
PendingEvaluation == [score |-> 0, failed |-> FALSE, done |-> FALSE]

\* The loop of _decide_next_agent over zip(agents, evaluations), from
\* position k on: max_score starts at -1 and only a strictly greater score
\* replaces the selection.
RECURSIVE SelectAgentLast(_, _, _, _, _)
SelectAgentLast(roster, evaluations, k, max_score, selected_agent) ==
    IF k > Len(roster) THEN selected_agent
    ELSE IF evaluations[k].score >= max_score
         THEN SelectAgentLast(roster, evaluations, k + 1, evaluations[k].score, roster[k])
         ELSE SelectAgentLast(roster, evaluations, k + 1, max_score, selected_agent)

RECURSIVE SelectAgent(_, _, _, _, _)
SelectAgent(roster, evaluations, k, max_score, selected_agent) ==
    IF k > Len(roster) THEN selected_agent
    ELSE IF evaluations[k].score > max_score
         THEN SelectAgent(roster, evaluations, k + 1, evaluations[k].score, roster[k])
         ELSE SelectAgent(roster, evaluations, k + 1, max_score, selected_agent)

DecideNextAgent(roster, evaluations) ==
    SelectAgent(roster, evaluations, 1, -1, NoAgent)

\* return {..., "final_response": current_message}
ConversationReturns(c) ==
    [c EXCEPT !.pc = "done", !.final_response = c.current_message]

\* Top of the for loop: range(max_rounds) is exhausted, or the next round
\* awaits _decide_next_agent.
NextRound(c) ==
    IF c.round_num >= c.max_rounds THEN ConversationReturns(c)
    ELSE [c EXCEPT !.pc = "deciding",
                   !.evaluations = [k \in DOMAIN c.agents |-> PendingEvaluation]]

\* initiate_conversation(conversation_id, agents, initial_message,
\* max_rounds) up to the first await.
InitiateConversation(roster, max_rounds) ==
    /\ chat.pc = "idle"
    /\ chat' = NextRound([chat EXCEPT !.agents = roster, !.max_rounds = max_rounds,
                                      !.round_num = 0,
                                      !.current_message = Messages[1]])
    /\ UNCHANGED exceptChat

\* One of the evaluate_capability calls running in the gather returned;
\* the calls return in any order and the gather keeps each result at the
\* position of its agent.
EvaluationCompletes(k, evaluation) ==
    /\ chat.pc = "deciding"
    /\ k \in DOMAIN chat.evaluations
    /\ ~chat.evaluations[k].done
    /\ chat' = [chat EXCEPT !.evaluations[k] = evaluation]
    /\ UNCHANGED exceptChat

\* Every gathered call has returned: _decide_next_agent selects and returns.
DecideReturns ==
    /\ chat.pc = "deciding"
    /\ \A k \in DOMAIN chat.evaluations : chat.evaluations[k].done
    /\ LET next_agent == DecideNextAgent(chat.agents, chat.evaluations)
           c == [chat EXCEPT !.next_agent = next_agent]
       IN  chat' = IF next_agent = NoAgent THEN ConversationReturns(c)
                   ELSE [c EXCEPT !.pc = "processing"]
    /\ UNCHANGED exceptChat

\* process_query of the selected agent returned a completed response: the
\* round is recorded and _should_continue_conversation is awaited.
AgentResponds ==
    /\ chat.pc = "processing"
    /\ LET content == ReplyOf(chat.next_agent, chat.current_message)
       IN  chat' = [chat EXCEPT
                       !.pc = "continuing",
                       !.content = content,
                       !.history = Append(@, [round |-> chat.round_num,
                                              agent |-> chat.next_agent,
                                              input |-> chat.current_message,
                                              output |-> content])]
    /\ UNCHANGED exceptChat

\* process_query returned its error dict, which has no "content":
\* response["content"] raises and initiate_conversation re-raises.
AgentFails ==
    /\ chat.pc = "processing"
    /\ chat' = [chat EXCEPT !.pc = "raised"]
    /\ UNCHANGED exceptChat

\* make_decision of agents[0] returned: decision.lower() == "yes".
ContinueReturns(outcome) ==
    /\ chat.pc = "continuing"
    /\ chat' = IF ToLower(MakeDecision(outcome)) = Yes
               THEN NextRound([chat EXCEPT !.current_message = chat.content,
                                           !.round_num = @ + 1])
               ELSE ConversationReturns(chat)
    /\ UNCHANGED exceptChat

InitChat == InitRegistry

NextChat ==
    \/ \E r \in Rosters, m \in 0..MaxRounds : InitiateConversation(r, m)
    \/ \E k \in 1..MaxAgents, e \in GatheredEvaluations : EvaluationCompletes(k, e)
    \/ DecideReturns
    \/ AgentResponds
    \/ AgentFails
    \/ \E d \in DecisionCompletions : ContinueReturns(d)

SpecChat == InitChat /\ [][NextChat]_vars

HistoryAgents == [k \in DOMAIN chat.history |-> chat.history[k].agent]

\* ----------------------------------------------------------------- C13
\* C13: within one initiate_conversation call no agent processes two
\* rounds: an agent that has processed a round is not selected again.
C13_NoAgentSelectedTwice ==
    /\ NoDuplicates(HistoryAgents)
    /\ chat.pc = "processing" => ~InSeq(chat.next_agent, HistoryAgents)

\* =========================================================================
\* create_embedding.process_files_async / load_index
\* =========================================================================
\* Lists are modelled by their lengths: the claims about ingestion compare
\* lengths and the run that wrote a file.
MaxFiles == 2
MaxRuns == 2

CHUNK_BATCH_SIZE == 5

\* The chunks text_splitter makes of a file: none (which also stands for a
\* file that read_file cannot read, content None or empty), or one full
\* batch and one more chunk.
ChunkCounts == {0, CHUNK_BATCH_SIZE + 1}

\* os.listdir(docs_dir): the files of the directory, one chunk count each.
Listings == UNION {[1..n -> ChunkCounts] : n \in 0..MaxFiles}

\* How the save step at lines 213-227 can end.
PersistOutcomes ==
    {"saved", "makedirs_fails", "write_index_fails", "write_index_truncates",
     "open_metadata_fails", "dump_truncates"}

Min(a, b) == IF a < b THEN a ELSE b

IndexFile(run, rows) == [AbsentFile EXCEPT !.state = "ok", !.run = run, !.rows = rows]
MetadataFile(run, texts, sources) ==
    [AbsentFile EXCEPT !.state = "ok", !.run = run, !.texts = texts, !.sources = sources]
CorruptFile(run) == [AbsentFile EXCEPT !.state = "corrupt", !.run = run]

\* The else branch at lines 228-230: no vector was produced.
NoVectorsCreatingDir(d) == [d EXCEPT !.dir = TRUE]

NoVectors(d) == d

\* Lines 207-230, run without an await once the last file is done.
\* ensure_embedding_dir, then faiss.write_index, then open(metadata_path,
\* 'wb') and pickle.dump; open(..., 'wb') empties the old file before
\* anything is dumped.
Persist(g, d, outcome) ==
    LET index == IndexFile(g.run, g.all_embeddings)
        metadata == MetadataFile(g.run, g.all_texts, g.all_sources)
        failed == [g EXCEPT !.pc = "raised", !.result = "save_error"]
        made == [d EXCEPT !.dir = TRUE]
    IN  IF g.all_embeddings = 0
        THEN [ingest |-> [g EXCEPT !.pc = "raised", !.result = "no_embeddings"],
              disk |-> NoVectors(d)]
        ELSE CASE outcome = "saved" ->
                    [ingest |-> [g EXCEPT !.pc = "returned", !.result = "saved"],
                     disk |-> [made EXCEPT !.index = index, !.metadata = metadata]]
               [] outcome = "makedirs_fails" ->
                    [ingest |-> failed, disk |-> d]
               [] outcome = "write_index_fails" ->
                    [ingest |-> failed, disk |-> made]
               [] outcome = "write_index_truncates" ->
                    [ingest |-> failed,
                     disk |-> [made EXCEPT !.index = CorruptFile(g.run)]]
               [] outcome = "open_metadata_fails" ->
                    [ingest |-> failed, disk |-> [made EXCEPT !.index = index]]
               [] outcome = "dump_truncates" ->
                    [ingest |-> failed,
                     disk |-> [made EXCEPT !.index = index,
                                           !.metadata = CorruptFile(g.run)]]

\* The for loop over files moves on: to the next read_file, or past the
\* last file into the save step.
AfterFile(g, d, outcome) ==
    IF g.file_i < Len(g.files)
    THEN [ingest |-> [g EXCEPT !.pc = "reading", !.file_i = @ + 1], disk |-> d]
    ELSE Persist(g, d, outcome)

\* process_files_async(docs_dir) up to the first read_file.
StartIngestion(docs_dir_exists, files) ==
    /\ ingest.pc \in {"idle", "returned", "raised"}
    /\ ingest.run < MaxRuns
    /\ docs_dir_exists \/ (~disk.dir /\ files = <<>>)
    /\ LET g == [NoIngestion EXCEPT !.run = ingest.run + 1, !.files = files]
       IN  ingest' =
              IF ~docs_dir_exists THEN [g EXCEPT !.pc = "raised", !.result = "not_found"]
              ELSE IF files = <<>> THEN [g EXCEPT !.pc = "returned", !.result = "no_files"]
              ELSE [g EXCEPT !.pc = "reading", !.file_i = 1]
    /\ UNCHANGED disk
    /\ UNCHANGED exceptIngestion

\* read_file returned: a file without content is skipped, any other is
\* split and process_chunks starts its first batch.
ReadFileReturns(outcome) ==
    /\ ingest.pc = "reading"
    /\ LET next == AfterFile(ingest, disk, outcome)
       IN  IF ingest.files[ingest.file_i] = 0
           THEN /\ ingest' = next.ingest
                /\ disk' = next.disk
           ELSE /\ ingest' = [ingest EXCEPT !.pc = "embedding", !.chunk_i = 0,
                                           !.embeddings = 0, !.texts = 0, !.sources = 0]
                /\ UNCHANGED disk
    /\ UNCHANGED exceptIngestion

\* The gather of one batch returned; `good` of its embed_text calls gave a
\* vector, the others failed or gave None.  Then asyncio.sleep is awaited.
BatchReturns(good) ==
    /\ ingest.pc = "embedding"
    /\ LET batch == Min(CHUNK_BATCH_SIZE, ingest.files[ingest.file_i] - ingest.chunk_i)
       IN  /\ good <= batch
           /\ ingest' = [ingest EXCEPT !.pc = "sleeping",
                                       !.chunk_i = @ + batch,
                                       !.embeddings = @ + good,
                                       !.texts = @ + good,
                                       !.sources = @ + good]
    /\ UNCHANGED disk
    /\ UNCHANGED exceptIngestion

\* The sleep after a batch is over: the next batch starts, or process_chunks
\* returns and its lists extend the lists of the run.
SleepReturns(outcome) ==
    /\ ingest.pc = "sleeping"
    /\ IF ingest.chunk_i < ingest.files[ingest.file_i]
       THEN /\ ingest' = [ingest EXCEPT !.pc = "embedding"]
            /\ UNCHANGED disk
       ELSE LET g == IF ingest.embeddings > 0
                     THEN [ingest EXCEPT !.all_embeddings = @ + ingest.embeddings,
                                         !.all_texts = @ + ingest.texts,
                                         !.all_sources = @ + ingest.sources]
                     ELSE ingest
                next == AfterFile(g, disk, outcome)
            IN  /\ ingest' = next.ingest
                /\ disk' = next.disk
    /\ UNCHANGED exceptIngestion

\* load_index(docs_dir), which has no await: what it returns or raises on
\* the files as they are.
LoadIndex(d) ==
    IF d.index.state = "absent" \/ d.metadata.state = "absent"
    THEN [status |-> "not_found", index |-> AbsentFile, metadata |-> AbsentFile]
    ELSE IF d.index.state = "corrupt" \/ d.metadata.state = "corrupt"
    THEN [status |-> "error", index |-> AbsentFile, metadata |-> AbsentFile]
    ELSE [status |-> "ok", index |-> d.index, metadata |-> d.metadata]

InitIngestion == InitRegistry

NextIngestion ==
    \/ \E e \in BOOLEAN, f \in Listings : StartIngestion(e, f)
    \/ \E o \in PersistOutcomes : ReadFileReturns(o)
    \/ \E n \in 0..CHUNK_BATCH_SIZE : BatchReturns(n)
    \/ \E o \in PersistOutcomes : SleepReturns(o)

SpecIngestion == InitIngestion /\ [][NextIngestion]_vars

\* ----------------------------------------------------------------- C14
\* C14: vectors, texts and sources are equally many at all times: in the
\* lists of process_chunks and of the run after every batch and every file,
\* and in every snapshot load_index returns, whatever runs came before.
C14_RowsMatchPassages ==
    /\ ingest.embeddings = ingest.texts /\ ingest.texts = ingest.sources
    /\ ingest.all_embeddings = ingest.all_texts /\ ingest.all_texts = ingest.all_sources
    /\ LoadIndex(disk).status = "ok" =>
          /\ LoadIndex(disk).index.rows = LoadIndex(disk).metadata.texts
          /\ LoadIndex(disk).index.rows = LoadIndex(disk).metadata.sources

\* ----------------------------------------------------------------- C15
\* C15: load_index never returns the index file of one ingestion run with
\* the metadata file of another.
C15_SnapshotOfOneRun ==
    LoadIndex(disk).status = "ok" =>
        LoadIndex(disk).index.run = LoadIndex(disk).metadata.run

\* ----------------------------------------------------------------- C16
\* C16: a run over a directory with at least one file that ends without a
\* single vector ends by raising, and no step of a run that has no vector
\* changes the embedding directory or its files: they stay as they were
\* when the run started.
C16_NoVectorsWritesNothing ==
    /\ []((/\ ingest.pc \in {"returned", "raised"}
           /\ ingest.files # <<>>
           /\ ingest.all_embeddings = 0) =>
              /\ ingest.pc = "raised"
              /\ ingest.result = "no_embeddings")
    /\ [][ingest'.all_embeddings = 0 => disk' = disk]_vars

\* Such a run has ended on a directory that holds the snapshot of an
\* earlier run.
C16_Witness ==
    /\ ingest.pc = "raised"
    /\ ingest.result = "no_embeddings"
    /\ ingest.files # <<>>
    /\ disk.index.state = "ok"
    /\ disk.metadata.state = "ok"

\* =========================================================================
\* DynamicAgent._query_knowledge_base / create_embedding.query_index_async
\* =========================================================================
\* Scores are inner products in tenths.  A passage is named by its position
\* in the metadata lists (1 is the first), an index row by its faiss id
\* (0 is the first).
MaxRows == 2
MaxK == 3

MAX_RETRIES == 3

\* The inner product of the query with an indexed row.
RowScores == {-5, 3, 8}

\* The inner products with the rows of an index.
RowScoreLists == UNION {[1..n -> RowScores] : n \in 1..MaxRows}

\* similarity_threshold as configured in the agent's parameters.
Thresholds == {-5, 0, 5}

\* The distance faiss reports for a neighbour it does not have.
PadDistance == -1000

\* What one invocation of the Embedding Service gives embed_text.
EmbeddingReplies == {"vector", "zero_norm", "fails"}

\* stop_after_attempt(MAX_RETRIES): another attempt follows a failed one
\* while fewer than MAX_RETRIES have been made.
RetriesOnceMore(attempts) == attempts < MAX_RETRIES + 1

Retries(attempts) == attempts < MAX_RETRIES

\* index.search(query, k) of a flat inner-product index: the k best rows,
\* best first, earlier rows first among equals; neighbours the index does not
\* have come back with id -1.
RECURSIVE SearchFrom(_, _, _)
SearchFrom(scores, taken, k) ==
    IF k = 0 THEN <<>>
    ELSE LET rest == DOMAIN scores \ taken
         IN  IF rest = {}
             THEN <<[d |-> PadDistance, i |-> -1]>> \o SearchFrom(scores, taken, k - 1)
             ELSE LET b == CHOOSE r \in rest :
                              \A q \in rest :
                                  \/ scores[q] < scores[r]
                                  \/ (scores[q] = scores[r] /\ r <= q)
                  IN  <<[d |-> scores[b], i |-> b - 1]>>
                          \o SearchFrom(scores, taken \cup {b}, k - 1)

Search(scores, k) == SearchFrom(scores, {}, k)

\* texts[i] of a Python list of `len` elements: a negative i counts from
\* the end.
ListItem(len, i) == IF i < 0 THEN len + 1 + i ELSE i + 1

\* results = [(texts[i], sources[i], float(d)) for d, i in zip(D[0], I[0])
\*            if i < len(texts)]
PrepareResults(found, len) ==
    LET kept == SelectSeq(found, LAMBDA n : n.i < len)
    IN  [j \in DOMAIN kept |-> [passage |-> ListItem(len, kept[j].i),
                                score |-> kept[j].d]]

\* Lines 242-253 of _query_knowledge_base.
FilterWithFallback(results, similarity_threshold) ==
    IF similarity_threshold > 0
    THEN LET kept == SelectSeq(results, LAMBDA r : r.score >= similarity_threshold)
         IN  IF kept = <<>> /\ results # <<>> THEN <<Last(results)>> \o results
             ELSE kept
    ELSE results

Filter(results, similarity_threshold) ==
    IF similarity_threshold > 0
    THEN SelectSeq(results, LAMBDA r : r.score >= similarity_threshold)
    ELSE results

\* The except clause of _query_knowledge_base: return [], [], [].
QueryFailed(q) == [q EXCEPT !.pc = "returned", !.raised = FALSE, !.results = <<>>]

\* AgentPoolManager.get_agent: the agent is constructed and
\* ensure_embeddings runs process_files_async when the directory has no
\* embedding/ subdirectory; the run ends with `rows` vectors (0: no file or
\* no vector) and a save that ends as `outcome`.  What ensure_embeddings
\* returns is not looked at.
GetAgent(similarity_threshold, rows, outcome) ==
    /\ knowledge.pc = "idle"
    /\ rows = 0 => outcome = "saved"
    /\ LET run == [NoIngestion EXCEPT !.run = 1, !.all_embeddings = rows,
                                      !.all_texts = rows, !.all_sources = rows]
       IN  disk' = IF disk.dir THEN disk ELSE Persist(run, disk, outcome).disk
    /\ knowledge' = [knowledge EXCEPT !.pc = "ready",
                                      !.similarity_threshold = similarity_threshold,
                                      !.ingestion_triggered = ~disk.dir]
    /\ UNCHANGED exceptKnowledge

\* _query_knowledge_base(query, k) up to the first await of the Embedding
\* Service: load_index, then embed_text, which answers None for a blank
\* text without invoking the service.
QueryStarts(k, blank) ==
    /\ knowledge.pc = "ready"
    /\ knowledge' =
          LET q == [knowledge EXCEPT !.k = k]
          IN  IF LoadIndex(disk).status # "ok" \/ blank THEN QueryFailed(q)
              ELSE [q EXCEPT !.pc = "embedding"]
    /\ UNCHANGED disk
    /\ UNCHANGED exceptKnowledge

\* One invocation of the Embedding Service by embed_text returned or
\* raised.  `scores` are the inner products of the vector with the rows.
EmbeddingReturns(embedded, scores) ==
    /\ knowledge.pc = "embedding"
    /\ DOMAIN scores = 1..LoadIndex(disk).index.rows
    /\ LET calls == Append(knowledge.calls, embedded)
           q == [knowledge EXCEPT !.calls = calls]
           retrieved == PrepareResults(Search(scores, knowledge.k),
                                       LoadIndex(disk).metadata.texts)
       IN  knowledge' =
              CASE embedded = "vector" ->
                      [q EXCEPT !.pc = "returned", !.embedding = "vector",
                                !.retrieved = retrieved,
                                !.results = Filter(retrieved, q.similarity_threshold)]
                [] embedded = "zero_norm" ->
                      QueryFailed([q EXCEPT !.embedding = "None"])
                [] embedded = "fails" ->
                      IF Retries(Len(calls)) THEN q
                      ELSE QueryFailed([q EXCEPT !.embedding = "raised"])
    /\ UNCHANGED disk
    /\ UNCHANGED exceptKnowledge

InitKnowledge == InitRegistry

NextKnowledge ==
    \/ \E t \in Thresholds, n \in 0..MaxRows, o \in PersistOutcomes : GetAgent(t, n, o)
    \/ \E k \in 1..MaxK, b \in BOOLEAN : QueryStarts(k, b)
    \/ \E e \in EmbeddingReplies, s \in RowScoreLists : EmbeddingReturns(e, s)

SpecKnowledge == InitKnowledge /\ [][NextKnowledge]_vars

\* ----------------------------------------------------------------- C17
\* C17: one embed_text call on a non-blank text invokes the Embedding
\* Service at most 3 times, makes no invocation after one that succeeded
\* and returns then, and raises instead of returning when 3 have failed.
C17_AtMostThreeInvocations ==
    /\ [](/\ Len(knowledge.calls) <= 3
          /\ \A j \in 1..(Len(knowledge.calls) - 1) : knowledge.calls[j] = "fails"
          /\ (knowledge.calls # <<>> /\ Last(knowledge.calls) # "fails") =>
                knowledge.embedding \in {"vector", "None"}
          /\ knowledge.embedding = "raised" <=>
                knowledge.calls = <<"fails", "fails", "fails">>)
    /\ [][knowledge.embedding # "none" => knowledge'.calls = knowledge.calls]_vars

\* The third invocation succeeded after two that failed.
C17_Witness ==
    /\ knowledge.calls = <<"fails", "fails", "vector">>
    /\ knowledge.embedding = "vector"

\* ----------------------------------------------------------------- C18
\* C18: a query on a directory whose index is missing, and still missing
\* after ingestion was triggered once, ends as a failure for the caller,
\* not as an empty result set.
C18_SecondMissIsSurfaced ==
    (/\ knowledge.pc = "returned"
     /\ knowledge.ingestion_triggered
     /\ LoadIndex(disk).status = "not_found") =>
        knowledge.raised

\* ----------------------------------------------------------------- C19
\* C19: query_index_async asked for k results on an index of N < k rows
\* returns exactly N results, one per indexed passage, none twice.
C19_FewerRowsThanK ==
    (/\ knowledge.pc = "returned"
     /\ knowledge.embedding = "vector"
     /\ knowledge.k > LoadIndex(disk).index.rows) =>
        /\ Len(knowledge.retrieved) = LoadIndex(disk).index.rows
        /\ NoDuplicates([j \in DOMAIN knowledge.retrieved |->
                            knowledge.retrieved[j].passage])

\* ----------------------------------------------------------------- C20
\* C20: whatever the configured threshold T, positive, zero or negative,
\* every result _query_knowledge_base returns has score >= T.
C20_ResultsReachThreshold ==
    knowledge.pc = "returned" =>
        \A j \in DOMAIN knowledge.results :
            knowledge.results[j].score >= knowledge.similarity_threshold

\* ----------------------------------------------------------------- C21
\* s can be had from t by leaving elements out.
RECURSIVE IsSubsequence(_, _)
IsSubsequence(s, t) ==
    IF s = <<>> THEN TRUE
    ELSE IF t = <<>> THEN FALSE
    ELSE IF Head(s) = Head(t) THEN IsSubsequence(Tail(s), Tail(t))
    ELSE IsSubsequence(s, Tail(t))

\* C21: for the same index, query and k, what _query_knowledge_base
\* returns under a threshold T is what the query returns without threshold
\* with some results left out, the others in the same order; when no result
\* reaches a positive T the result is empty.
C21_FilteredIsSubsequence ==
    knowledge.pc = "returned" =>
        /\ IsSubsequence(knowledge.results, knowledge.retrieved)
        /\ (/\ knowledge.similarity_threshold > 0
            /\ \A j \in DOMAIN knowledge.retrieved :
                  knowledge.retrieved[j].score < knowledge.similarity_threshold) =>
              knowledge.results = <<>>

\* A positive threshold has left out one of two results and kept the other.
C21_Witness ==
    /\ knowledge.pc = "returned"
    /\ knowledge.similarity_threshold > 0
    /\ Len(knowledge.retrieved) = 2
    /\ Len(knowledge.results) = 1

\* ----------------------------------------------------------------- C22
\* C22: when the candidate of a hand-off fails while processing, the
\* response of the agent that handed off carries next_agent_error.
C22_FailedCandidateIsRecorded ==
    \A i \in Invocations :
        (Succeeded(i) /\ Len(Chain(i)) >= 2 /\ Last(Chain(i)).status = "error") =>
            Chain(i)[Len(Chain(i)) - 1].next_agent_error

\* ----------------------------------------------------------------- C23
\* C23: a peer whose evaluate_capability failed counts as score 0 and is
\* not the candidate chosen by process_query, whatever the others score.
C23_FailedPeerNeverChosen ==
    \A i \in Invocations :
        \A k \in DOMAIN stack[i] :
            LET f == stack[i][k]
            IN  f.pc \in {"deciding", "awaiting"} =>
                   \A j \in DOMAIN f.evals :
                       f.evals[j].reason = "eval_error" =>
                          /\ f.evals[j].score = 0
                          /\ trails[f.trail][f.step].next_agent # f.evals[j].name

\* ----------------------------------------------------------------- C24
\* The position, in iteration order, of the first of the highest scores.
FirstMaximal(evaluations) ==
    CHOOSE k \in DOMAIN evaluations :
        /\ \A j \in DOMAIN evaluations : evaluations[j].score <= evaluations[k].score
        /\ \A j \in 1..(k - 1) : evaluations[j].score < evaluations[k].score

\* The evaluations of a round as the list process_query takes its max of.
AsPeerEvaluations(roster, evaluations) ==
    [k \in DOMAIN evaluations |->
        [name |-> roster[k], score |-> evaluations[k].score,
         reason |-> IF evaluations[k].failed THEN "eval_error" ELSE "reason"]]

C27_FinalResponseIsLastOutput ==
    (chat.pc = "done" /\ chat.history # <<>>) =>
        chat.final_response = Last(chat.history).output


\* ---------------------------------------------------------------------
\* C30: whenever the embedding/ subdirectory exists, the index file and
\* the metadata file both exist in it, so load_index of a directory whose
\* ingestion ensure_embeddings would skip never answers not-found.
C30_DirectoryHoldsBothFiles ==
    disk.dir =>
        /\ disk.index.state # "absent"
        /\ disk.metadata.state # "absent"
        /\ LoadIndex(disk).status # "not_found"


\* =====================================================================
\* process_chunks (create_embedding.py): the chunks of one file are
\* embedded in batches of CHUNK_BATCH_SIZE, each batch by one
\* asyncio.gather(..., return_exceptions=True).
\* =====================================================================
MaxChunks == 6
FilePaths == {"docs/a.txt", "docs/b.txt"}

\* The chunks text_splitter hands over, named by their place in the file.
ChunkText(k) == <<"chunk", k>>
ChunkLists == {[k \in 1..n |-> ChunkText(k)] : n \in 0..MaxChunks}

\* The normalised vector the embedding service answers for a text.
EmbeddingOf(text) == <<"vector">> \o text

\* What one embed_text call of the gather ends with: a vector, None (blank
\* text or a vector of norm 0), or the exception that the gather returns
\* in the call's place.
EmbedOutcomes == {"embedded", "none", "raised"}

\* An embed_text call that the gather has not been handed yet, and one that
\* is outstanding.
Unstarted == "unstarted"
Outstanding == "outstanding"

\* chunks[i:i + CHUNK_BATCH_SIZE], as the 1-based places of its chunks.
BatchToEnd(c, i) == (i + 1)..Len(c)

Batch(c, i) == (i + 1)..Min(i + CHUNK_BATCH_SIZE, Len(c))

\* The loop over zip(batch, batch_embeddings) from place k up to place hi:
\* an exception is logged and skipped, None is skipped, a vector is
\* appended together with its chunk and the file path.
RECURSIVE CollectUntilFailure(_, _, _)
CollectUntilFailure(c, k, hi) ==
    IF k > hi \/ c.calls[k] = "raised" THEN c
    ELSE IF c.calls[k] = "none" THEN CollectUntilFailure(c, k + 1, hi)
    ELSE CollectUntilFailure(
             [c EXCEPT !.embeddings = Append(@, EmbeddingOf(c.chunks[k])),
                       !.texts = Append(@, c.chunks[k]),
                       !.sources = Append(@, c.filepath),
                       !.metadata = Append(@, [source |-> c.filepath])],
             k + 1, hi)

RECURSIVE Collect(_, _, _)
Collect(c, k, hi) ==
    IF k > hi THEN c
    ELSE IF c.calls[k] \in {"raised", "none"} THEN Collect(c, k + 1, hi)
    ELSE Collect(
             [c EXCEPT !.embeddings = Append(@, EmbeddingOf(c.chunks[k])),
                       !.texts = Append(@, c.chunks[k]),
                       !.sources = Append(@, c.filepath),
                       !.metadata = Append(@, [source |-> c.filepath])],
             k + 1, hi)

\* Top of the for loop over range(0, len(chunks), CHUNK_BATCH_SIZE): the
\* range is exhausted and the four lists are returned, or the gather is
\* handed one embed_text call per chunk of the batch.
NextBatch(c) ==
    IF c.i >= Len(c.chunks) THEN [c EXCEPT !.pc = "returned"]
    ELSE [c EXCEPT !.pc = "gathering",
                   !.calls = [k \in DOMAIN c.calls |->
                                 IF k \in Batch(c.chunks, c.i) THEN Outstanding
                                 ELSE c.calls[k]]]

\* process_chunks(chunks, filepath) up to its first await.
ProcessChunks(chunk_list, filepath) ==
    /\ chunks.pc \in {"idle", "returned"}
    /\ chunks' = NextBatch([NoChunks EXCEPT
                               !.chunks = chunk_list, !.filepath = filepath,
                               !.calls = [k \in DOMAIN chunk_list |-> Unstarted]])
    /\ UNCHANGED exceptChunks

\* One outstanding embed_text call ends; the calls of a batch end in any
\* order and the gather keeps each result at the place of its call.
EmbedTextReturns(k, outcome) ==
    /\ chunks.pc = "gathering"
    /\ k \in DOMAIN chunks.calls
    /\ chunks.calls[k] = Outstanding
    /\ chunks' = [chunks EXCEPT !.calls[k] = outcome]
    /\ UNCHANGED exceptChunks

\* Every call of the batch has ended: the gather returns, the results are
\* collected and asyncio.sleep(0.1) is awaited.
GatherReturns ==
    /\ chunks.pc = "gathering"
    /\ \A k \in DOMAIN chunks.calls : chunks.calls[k] # Outstanding
    /\ LET hi == Min(chunks.i + CHUNK_BATCH_SIZE, Len(chunks.chunks))
       IN  chunks' = [Collect(chunks, chunks.i + 1, hi) EXCEPT !.pc = "sleeping"]
    /\ UNCHANGED exceptChunks

\* The pause between batches is over: the loop moves on by CHUNK_BATCH_SIZE.
BatchSleepReturns ==
    /\ chunks.pc = "sleeping"
    /\ chunks' = NextBatch([chunks EXCEPT !.i = @ + CHUNK_BATCH_SIZE])
    /\ UNCHANGED exceptChunks

InitChunks == InitRegistry

NextChunks ==
    \/ \E c \in ChunkLists, f \in FilePaths : ProcessChunks(c, f)
    \/ \E k \in 1..MaxChunks, o \in EmbedOutcomes : EmbedTextReturns(k, o)
    \/ GatherReturns
    \/ BatchSleepReturns

SpecChunks == InitChunks /\ [][NextChunks]_vars

\* The calls that are outstanding.
OutstandingCalls == {k \in DOMAIN chunks.calls : chunks.calls[k] = Outstanding}

\* The places of the chunks whose embed_text call answered a vector, in
\* chunk order.
EmbeddedPlaces ==
    SelectSeq([k \in DOMAIN chunks.calls |-> k],
              LAMBDA k : chunks.calls[k] = "embedded")

\* ---------------------------------------------------------------------
\* C25: at most CHUNK_BATCH_SIZE (5) embed_text calls are outstanding at
\* any moment, and a step that starts calls is taken only when no call is
\* outstanding: the calls of the previous batch have all ended.
C25_AtMostFiveOutstanding ==
    /\ [](Cardinality(OutstandingCalls) <= CHUNK_BATCH_SIZE)
    /\ [][(\E k \in DOMAIN chunks'.calls :
              /\ chunks'.calls[k] = Outstanding
              /\ (k \in DOMAIN chunks.calls => chunks.calls[k] # Outstanding))
          => /\ OutstandingCalls = {}
             /\ chunks.pc = "sleeping" =>
                    \A k \in 1..chunks.i + CHUNK_BATCH_SIZE :
                        k \in DOMAIN chunks.calls =>
                            chunks.calls[k] \in EmbedOutcomes]_vars

C25_Witness ==
    /\ chunks.pc = "gathering"
    /\ chunks.i = CHUNK_BATCH_SIZE
    /\ Len(chunks.chunks) > CHUNK_BATCH_SIZE
    /\ chunks.calls[1] = "raised"
    /\ chunks.calls[2] = "none"
    /\ OutstandingCalls # {}

\* ---------------------------------------------------------------------
\* C26: process_chunks returns exactly the chunks whose embedding
\* succeeded, in chunk order, each with its own vector and the file path;
\* a call that failed or answered None stops no other call of its batch.
C26_ReturnsTheEmbeddedChunks ==
    chunks.pc = "returned" =>
        /\ \A k \in DOMAIN chunks.calls : chunks.calls[k] \in EmbedOutcomes
        /\ chunks.texts = [j \in DOMAIN EmbeddedPlaces |->
                              chunks.chunks[EmbeddedPlaces[j]]]
        /\ chunks.embeddings = [j \in DOMAIN EmbeddedPlaces |->
                                   EmbeddingOf(chunks.chunks[EmbeddedPlaces[j]])]
        /\ chunks.sources = [j \in DOMAIN EmbeddedPlaces |-> chunks.filepath]
        /\ chunks.metadata = [j \in DOMAIN EmbeddedPlaces |->
                                 [source |-> chunks.filepath]]

C26_Witness ==
    /\ chunks.pc = "returned"
    /\ Len(chunks.chunks) > CHUNK_BATCH_SIZE
    /\ chunks.calls[1] = "raised"
    /\ chunks.calls[2] = "embedded"
    /\ chunks.calls[3] = "none"
    /\ chunks.calls[Len(chunks.chunks)] = "embedded"
    /\ Len(chunks.texts) >= 2


\* =====================================================================
\* Chat rooms (routes/chat_routes.py): the module-level dicts chat_rooms
\* and chat_history, keyed by room id.
\* =====================================================================
MaxCreated == 3
MaxMessages == 1
RoomNames == {"room"}

\* str(n) of a room count.
Digits == <<"1", "2", "3", "4", "5", "6", "7", "8", "9">>
Str(n) == Digits[n]

\* What create_chat_room finds in room_data.agent_names: nothing, names
\* that agent_pool.get_agent all knows, or a name it answers None for.
AgentNamesGiven == {"none", "known", "unknown"}

\* dict[key] = value.
SetItem(d, key, value) ==
    [k \in DOMAIN d \cup {key} |-> IF k = key THEN value ELSE d[k]]

\* del dict[key].
DelItem(d, key) == [k \in DOMAIN d \ {key} |-> d[k]]

\* create_chat_room(room_data).  agent_pool.get_agent reads config.json
\* without suspending, so the handler runs in one step.  An empty
\* agent_names is answered 400; the 404 of an unknown agent is raised
\* inside the inner try and answered 500; otherwise the room is stored
\* under str(len(chat_rooms) + 1) with an empty history.
CreateChatRoom(name, agent_names) ==
    /\ rooms.now < MaxCreated
    /\ rooms' =
          IF agent_names = "none" THEN [rooms EXCEPT !.response = "bad_request"]
          ELSE IF agent_names = "unknown" THEN [rooms EXCEPT !.response = "error"]
          ELSE LET room_id == Str(Cardinality(DOMAIN rooms.chat_rooms) + 1)
                   room == [id |-> room_id, name |-> name,
                            created_at |-> rooms.now + 1]
               IN  [rooms EXCEPT
                       !.chat_rooms = SetItem(@, room_id, room),
                       !.chat_history = SetItem(@, room_id, <<>>),
                       !.now = @ + 1,
                       !.room_id = room_id,
                       !.response = "created"]
    /\ UNCHANGED exceptRooms

\* delete_chat_room(room_id) of a room without open connections: 404 for
\* an unknown id, otherwise both entries are deleted.
DeleteChatRoom(room_id) ==
    /\ rooms' =
          IF room_id \notin DOMAIN rooms.chat_rooms
          THEN [rooms EXCEPT !.response = "not_found"]
          ELSE [rooms EXCEPT
                   !.chat_rooms = DelItem(@, room_id),
                   !.chat_history = DelItem(@, room_id),
                   !.response = "deleted"]
    /\ UNCHANGED exceptRooms

\* handle_chat_message: chat_history[room_id].append(...) of the user's
\* message (line 224) or of the final message (line 333).
AppendMessage(room_id, sender) ==
    /\ room_id \in DOMAIN rooms.chat_history
    /\ Len(rooms.chat_history[room_id]) < MaxMessages
    /\ rooms' = [rooms EXCEPT
                    !.chat_history[room_id] = Append(@, [sender |-> sender])]
    /\ UNCHANGED exceptRooms

InitRooms == InitRegistry

NextRooms ==
    \/ \E n \in RoomNames, a \in AgentNamesGiven : CreateChatRoom(n, a)
    \/ \E k \in 1..MaxCreated : DeleteChatRoom(Str(k))
    \/ \E k \in 1..MaxCreated, s \in {"user", "agent"} : AppendMessage(Str(k), s)

SpecRooms == InitRooms /\ [][NextRooms]_vars

\* ---------------------------------------------------------------------
\* C28: create_chat_room assigns an id no existing room uses: no step
\* replaces the record of a room that stays, or shortens its history.
C28_CreateNeverReplaces ==
    [][\A id \in DOMAIN rooms.chat_rooms :
          id \in DOMAIN rooms'.chat_rooms =>
              /\ rooms'.chat_rooms[id] = rooms.chat_rooms[id]
              /\ Len(rooms'.chat_history[id]) >= Len(rooms.chat_history[id])]_vars

\* =====================================================================
\* AgentPoolManager.create_agent and delete_agent (agent_pool_manager.py):
\* the agent directories under base_dir and the entries of agents.json.
\* =====================================================================
CreateOutcomes ==
    {"embeddings_fail", "config_write_fails", "agents_file_fails", "created"}

\* create_agent(agent_data, knowledge_files) up to its await of
\* ensure_embeddings: 400 when the agent directory exists; otherwise the
\* directory and docs/ are made and the files copied; a copy that raises
\* reaches `except Exception`, which removes the directory.
CreateAgentStarts(name, copied) ==
    /\ pool.pc # "embedding"
    /\ pool' =
          IF name \in pool.dirs
          THEN [pool EXCEPT !.pc = "raised", !.name = name, !.result = "exists"]
          ELSE IF ~copied
          THEN [pool EXCEPT !.pc = "raised", !.name = name, !.result = "error"]
          ELSE [pool EXCEPT !.pc = "embedding", !.name = name,
                            !.result = "none", !.dirs = @ \cup {name}]
    /\ UNCHANGED exceptPool

\* ensure_embeddings returned and create_agent runs to its end.  False
\* raises HTTPException(500), which `except HTTPException: raise` passes
\* on as it is.  Writing config.json may raise, which reaches
\* `except Exception` and its rmtree.  _read_agents_file and
\* _write_agents_file turn their errors into HTTPException, passed on as
\* it is.  config.json cannot be written into a directory that
\* delete_agent removed meanwhile.
EnsureEmbeddingsReturns(outcome) ==
    /\ pool.pc = "embedding"
    /\ outcome \in {"agents_file_fails", "created"} => pool.name \in pool.dirs
    /\ pool' =
          CASE outcome = "embeddings_fail" ->
                 [pool EXCEPT !.pc = "raised", !.result = "error"]
            [] outcome = "config_write_fails" ->
                 [pool EXCEPT !.pc = "raised", !.result = "error",
                              !.dirs = @ \ {pool.name}]
            [] outcome = "agents_file_fails" ->
                 [pool EXCEPT !.pc = "raised", !.result = "error"]
            [] outcome = "created" ->
                 [pool EXCEPT !.pc = "returned", !.result = "created",
                              !.listed = Append(@, pool.name)]
    /\ UNCHANGED exceptPool

\* delete_agent(name) of an agent whose directory exists: rmtree, then
\* agents.json is rewritten without the name.
DeleteAgent(name) ==
    /\ name \in pool.dirs
    /\ pool' = [pool EXCEPT !.dirs = @ \ {name},
                            !.listed = SelectSeq(@, LAMBDA a : a # name)]
    /\ UNCHANGED exceptPool

InitPool == InitRegistry

NextPool ==
    \/ \E n \in AgentNames, c \in BOOLEAN : CreateAgentStarts(n, c)
    \/ \E o \in CreateOutcomes : EnsureEmbeddingsReturns(o)
    \/ \E n \in AgentNames : DeleteAgent(n)

SpecPool == InitPool /\ [][NextPool]_vars

\* ---------------------------------------------------------------------
\* C29: after a create_agent that failed for another reason than the
\* agent existing already, neither the agent's directory nor an
\* agents.json entry of its name remains.
C29_FailedCreateLeavesNothing ==
    (pool.pc = "raised" /\ pool.result # "exists") =>
        /\ pool.name \notin pool.dirs
        /\ ~InSeq(pool.name, pool.listed)

====
